---- MODULE Spec2Model ----
(***************************************************************************)
(* Fuse table storage engine of databend: the write path                  *)
(* (BlockAppender::append_blocks, block_stats, save_block) and the read    *)
(* path (BlockPruner::new / apply / filter_segment), with the optional     *)
(* metadata cache of the query context. Beside the table: the blocking     *)
(* wait TrySpawn::block_on of the runtime, and the calls of UserMgr on the *)
(* record of one user in the metadata KV store.                            *)
(*                                                                         *)
(* Blocks hold Int64 columns whose cells are small naturals or Null.       *)
(* Block locations, segment locations and snapshot ids are naturals: the   *)
(* n-th generated location is n.                                           *)
(***************************************************************************)
EXTENDS Integers, Sequences, FiniteSets, TLC

\* ---------------------------------------------------------------- bounds
MaxVal == 1
MaxRows == 2
MaxBatches == 2
MaxAppends == 2
MaxSegments == 11
MaxFaults == 1
MaxPolls == 5
MaxCallers == 2
MaxSeqArg == 2

\* ------------------------------------------------------ program constants
\* .buffered(std::cmp::min(10, segment_num))
MaxBuffered == 10

\* ------------------------------------------------------------ data values
Null == -1
Values == 0..MaxVal
Cells == Values \cup {Null}

RECURSIVE SumSeq(_)
SumSeq(s) == IF s = <<>> THEN 0 ELSE Head(s) + SumSeq(Tail(s))

RECURSIVE Flatten(_)
Flatten(ss) == IF ss = <<>> THEN <<>> ELSE Head(ss) \o Flatten(Tail(ss))

Range(s) == {s[i] : i \in DOMAIN s}

SetMin(S) == CHOOSE m \in S : \A x \in S : m <= x
SetMax(S) == CHOOSE m \in S : \A x \in S : m >= x

\* DataColumn::Array(series) and DataColumn::Constant(value, len)
ArrayColumn(vs) == [kind |-> "Array", data_type |-> "Int64", vals |-> vs, len |-> Len(vs)]
ConstantColumn(v, n) == [kind |-> "Constant", data_type |-> "Int64", vals |-> <<v>>, len |-> n]
\* a column of a type on which Series::min / Series::max are not defined
StructColumn == [kind |-> "Array", data_type |-> "Struct", vals |-> <<0>>, len |-> 1]
\* DataColumn::Constant of that type: its value is kept without any Series call
ConstantStructColumn == [kind |-> "Constant", data_type |-> "Struct", vals |-> <<0>>, len |-> 1]

Int64Columns ==
    {ArrayColumn(vs) : vs \in UNION {[1..n -> Cells] : n \in 0..MaxRows}}
    \cup {ConstantColumn(v, n) : v \in Cells, n \in 0..MaxRows}

\* the batches a stream may deliver: one Int64 column, one column of an
\* unsupported type (array or constant), or DataBlock::empty() (no column)
DataBlocks ==
    {[columns |-> <<c>>] : c \in Int64Columns}
    \cup {[columns |-> <<StructColumn>>], [columns |-> <<ConstantStructColumn>>],
          [columns |-> <<>>]}

\* the batches that conform to the table schema (one Int64 column)
TableBlocks == {[columns |-> <<c>>] : c \in Int64Columns}

\* the rows of a column, a constant column expanded
ColumnRows(col) ==
    IF col.kind = "Array" THEN col.vals ELSE [i \in 1..col.len |-> col.vals[1]]

num_rows(block) == IF block.columns = <<>> THEN 0 ELSE block.columns[1].len
num_columns(block) == Len(block.columns)

ColumnMemorySize(col) == IF col.kind = "Array" THEN col.len ELSE 1
memory_size(block) ==
    SumSeq([i \in 1..Len(block.columns) |-> ColumnMemorySize(block.columns[i])])

\* bytes written by write_file: a fixed frame plus the expanded cells
FileSize(block) == 2 + num_rows(block) * num_columns(block)

\* ------------------------------------------------------------- statistics
NonNull(s) == Range(s) \ {Null}
SeriesMin(vs) == IF NonNull(vs) = {} THEN Null ELSE SetMin(NonNull(vs))
SeriesMax(vs) == IF NonNull(vs) = {} THEN Null ELSE SetMax(NonNull(vs))
SeriesNullCount(vs) == Cardinality({i \in DOMAIN vs : vs[i] = Null})
\* the types on which min / max of a series of values are defined
TypeSupported(data_type) == data_type = "Int64"
\* s.min() / s.max() are called on DataColumn::Array only; they are the only
\* calls of block_stats that can fail
MinMaxFails(col) == col.kind = "Array" /\ ~TypeSupported(col.data_type)

ColumnMin(col) == IF col.kind = "Array" THEN SeriesMin(col.vals) ELSE col.vals[1]
ColumnMax_MinForMax(col) == IF col.kind = "Array" THEN SeriesMin(col.vals) ELSE col.vals[1]
ColumnMax(col) == IF col.kind = "Array" THEN SeriesMax(col.vals) ELSE col.vals[1]
ColumnNullCount(col) ==
    IF col.kind = "Array" THEN SeriesNullCount(col.vals)
    ELSE IF col.vals[1] = Null THEN 1 ELSE 0

\* block_stats: column ids are the positions 0..k-1
block_stats(data_block) ==
    LET k == Len(data_block.columns)
        row_count == num_rows(data_block)
    IN  IF \E i \in 1..k : MinMaxFails(data_block.columns[i])
        THEN [ok |-> FALSE, stats |-> <<>>]
        ELSE [ok |-> TRUE,
              stats |-> [idx \in 0..(k - 1) |->
                  [data_type |-> data_block.columns[idx + 1].data_type,
                   col_stats |->
                      [min |-> ColumnMin(data_block.columns[idx + 1]),
                       max |-> ColumnMax(data_block.columns[idx + 1]),
                       null_count |-> ColumnNullCount(data_block.columns[idx + 1]),
                       row_count |-> row_count]]]]

\* HashMap<ColumnId, ColStats> kept in the BlockMeta
BlockColStats_SwapMinMax(blk_stats) ==
    [idx \in DOMAIN blk_stats |->
        [min |-> blk_stats[idx].col_stats.max,
         max |-> blk_stats[idx].col_stats.min,
         null_count |-> blk_stats[idx].col_stats.null_count,
         row_count |-> blk_stats[idx].col_stats.row_count]]
BlockColStats_FromOne(blk_stats) ==
    [idx \in {i + 1 : i \in DOMAIN blk_stats} |-> blk_stats[idx - 1].col_stats]
BlockColStats(blk_stats) == [idx \in DOMAIN blk_stats |-> blk_stats[idx].col_stats]

\* column_stats_reduce (section 4.1 of the design): the min and max of each
\* column are taken over the per-block values, a type error on a column type
\* that has no min / max
column_stats_reduce_FirstMin(stats) ==
    LET ids == UNION {DOMAIN stats[i] : i \in DOMAIN stats}
        maxs(id) == [i \in DOMAIN stats |-> stats[i][id].col_stats.max]
    IN  IF \E i \in DOMAIN stats : DOMAIN stats[i] # ids
        THEN [ok |-> FALSE, err |-> "FormatError", stats |-> <<>>]
        ELSE IF \E i \in DOMAIN stats : \E id \in DOMAIN stats[i] :
                   ~TypeSupported(stats[i][id].data_type)
        THEN [ok |-> FALSE, err |-> "StatsError", stats |-> <<>>]
        ELSE [ok |-> TRUE, err |-> "none",
              stats |-> [id \in ids |->
                  [min |-> stats[1][id].col_stats.min,
                   max |-> SeriesMax(maxs(id)),
                   null_count |-> SumSeq([i \in DOMAIN stats |-> stats[i][id].col_stats.null_count]),
                   row_count |-> SumSeq([i \in DOMAIN stats |-> stats[i][id].col_stats.row_count])]]]
column_stats_reduce(stats) ==
    LET ids == UNION {DOMAIN stats[i] : i \in DOMAIN stats}
        mins(id) == [i \in DOMAIN stats |-> stats[i][id].col_stats.min]
        maxs(id) == [i \in DOMAIN stats |-> stats[i][id].col_stats.max]
    IN  IF \E i \in DOMAIN stats : DOMAIN stats[i] # ids
        THEN [ok |-> FALSE, err |-> "FormatError", stats |-> <<>>]
        ELSE IF \E i \in DOMAIN stats : \E id \in DOMAIN stats[i] :
                   ~TypeSupported(stats[i][id].data_type)
        THEN [ok |-> FALSE, err |-> "StatsError", stats |-> <<>>]
        ELSE [ok |-> TRUE, err |-> "none",
              stats |-> [id \in ids |->
                  [min |-> SeriesMin(mins(id)),
                   max |-> SeriesMax(maxs(id)),
                   null_count |-> SumSeq([i \in DOMAIN stats |-> stats[i][id].col_stats.null_count]),
                   row_count |-> SumSeq([i \in DOMAIN stats |-> stats[i][id].col_stats.row_count])]]]


\* ------------------------------------------------------ filter expressions
CmpOps == {"=", "<", "<=", ">", ">="}
Cmp(op, col, lit) == [op |-> op, col |-> col, lit |-> lit, args |-> <<>>]
Conj(a, b) == [op |-> "and", col |-> 0, lit |-> 0, args |-> <<a, b>>]

\* the scan schema: one Int64 column, column id 0
Schema == <<"Int64">>

Atoms == {Cmp(op, 0, l) : op \in CmpOps, l \in Values}
Conjunctions ==
    {Conj(Cmp(">=", 0, a), Cmp("<=", 0, b)) : a \in Values, b \in Values}
\* a reference to a column the schema does not have, and an operator with no
\* statistics-based relaxation
UnknownColumn == Cmp("=", 1, 0)
UnsupportedOp == [op |-> "like", col |-> 0, lit |-> 0, args |-> <<>>]
Filters == Atoms \cup Conjunctions \cup {UnknownColumn, UnsupportedOp}

NoPushDown == [some |-> FALSE, filters |-> <<>>]
Extras(fs) == [some |-> TRUE, filters |-> fs]
PushDowns == {NoPushDown, Extras(<<>>)} \cup {Extras(<<f>>) : f \in Filters}

RECURSIVE Compilable(_)
Compilable(e) ==
    IF e.op = "and" THEN \A i \in DOMAIN e.args : Compilable(e.args[i])
    ELSE e.op \in CmpOps /\ e.col < Len(Schema)

\* RangeFilter::try_create
RangeFilter_try_create(e) == [ok |-> Compilable(e), expr |-> e]

RECURSIVE EvalOk(_, _)
EvalOk(e, stats) ==
    IF e.op = "and" THEN \A i \in DOMAIN e.args : EvalOk(e.args[i], stats)
    ELSE e.col \in DOMAIN stats

RECURSIVE EvalTrue(_, _)
EvalTrue(e, stats) ==
    IF e.op = "and" THEN \A i \in DOMAIN e.args : EvalTrue(e.args[i], stats)
    ELSE LET lo == stats[e.col].min
             hi == stats[e.col].max
         IN  \/ lo = Null
             \/ hi = Null
             \/ CASE e.op = "="  -> lo <= e.lit /\ e.lit <= hi
                  [] e.op = "<"  -> lo < e.lit
                  [] e.op = "<=" -> lo <= e.lit
                  [] e.op = ">"  -> hi > e.lit
                  [] e.op = ">=" -> hi >= e.lit

\* RangeFilter::eval : Result<bool>
RangeFilter_eval(e, stats) ==
    IF EvalOk(e, stats) THEN [ok |-> TRUE, val |-> EvalTrue(e, stats)]
    ELSE [ok |-> FALSE, val |-> FALSE]

\* the filter itself, on one row (column id -> cell); Null satisfies nothing
RECURSIVE RowSatisfies(_, _)
RowSatisfies(e, row) ==
    IF e.op = "and" THEN \A i \in DOMAIN e.args : RowSatisfies(e.args[i], row)
    ELSE /\ e.col \in DOMAIN row
         /\ row[e.col] # Null
         /\ CASE e.op = "="  -> row[e.col] = e.lit
              [] e.op = "<"  -> row[e.col] < e.lit
              [] e.op = "<=" -> row[e.col] <= e.lit
              [] e.op = ">"  -> row[e.col] > e.lit
              [] e.op = ">=" -> row[e.col] >= e.lit

BlockRow(block, r) ==
    [idx \in 0..(Len(block.columns) - 1) |-> ColumnRows(block.columns[idx + 1])[r]]
BlockHasMatch(e, block) ==
    \E r \in 1..num_rows(block) : RowSatisfies(e, BlockRow(block, r))

\* block_pred: the compiled predicate, or the constant Ok(true)
TruePred == [always |-> TRUE, expr |-> Cmp("=", 0, 0)]
FilterPred(e) == [always |-> FALSE, expr |-> e]
ConstPred_False(stats) == [ok |-> TRUE, val |-> FALSE]
ConstPred(stats) == [ok |-> TRUE, val |-> TRUE]
Pred(p, stats) ==
    IF p.always THEN ConstPred(stats) ELSE RangeFilter_eval(p.expr, stats)

\* the filter expression apply compiles, if any
HasFilter(pd) == pd.some /\ pd.filters # <<>>
UsedFilter_Last(pd) == pd.filters[Len(pd.filters)]
UsedFilter(pd) == pd.filters[1]

\* ---------------------------------------------------------- metadata cache
\* ctx.get_storage_cache(): an optional cache keyed by location, one table of
\* snapshot entries and one of segment entries
NoCache == [enabled |-> FALSE, snapshots |-> <<>>, segments |-> <<>>]
EmptyCache == [enabled |-> TRUE, snapshots |-> <<>>, segments |-> <<>>]
CacheHas(entries, loc) == loc \in DOMAIN entries
CacheGet_AnyEntry(entries, loc) == entries[CHOOSE k \in DOMAIN entries : TRUE]
CacheGet(entries, loc) == entries[loc]
CachePut(entries, loc, entry) == (loc :> entry) @@ entries
NoHits == [snapshot |-> <<>>, segments |-> <<>>]


\* ------------------------------------------------------------------ state
VARIABLES
    \* storage
    nextLoc,            \* block locations generated so far
    blockFiles,         \* block location -> the block file written there
    segStore,           \* segment location -> SegmentInfo
    snapshots,          \* snapshot id -> segment locations; the last is current
    \* one append_blocks call
    apc,                \* "idle", "running", "done", "err"
    pulled,             \* the batches stream.next() has delivered to this call
    persisted,          \* the sizes save_block has returned to this call
    block_metas,
    blocks_stats,
    summary_row_count,
    summary_block_count,
    summary_uncompressed_byte_size,
    summary_compressed_byte_size,
    aresult,            \* Result<SegmentInfo> of the call
    \* one BlockPruner and its apply call
    ppc,                \* "none", "new", "read_snapshot", "fanout", "done", "err"
    table_snapshot_location,
    push_down,
    block_pred,
    snapshot_reads,     \* SnapshotReader::read calls issued
    faults,             \* storage reads that have failed during the call
    segment_reads,      \* segment locations SegmentReader::read was issued for
    segment_locs,
    next_seg,           \* position of stream::iter(segment_locs)
    in_progress,        \* indices of the segment loads that are running
    queued_outputs,     \* index -> output of a finished load, not yet yielded
    next_outgoing_index,
    collected,          \* what try_collect has gathered
    failures,           \* index -> error of every load that failed
    published_during,   \* snapshots published since the pruner was built
    presult,            \* Result<Vec<BlockMeta>> of the call
    pred_evals,         \* index -> the statistics the load of that segment
                        \* called the predicate on: 0 the Summary, j block j
    cache_hits,         \* what the readers of this call got from the cache
    overtaken,          \* a load has completed while the load of an earlier
                        \* segment was running
    \* shared with other queries
    storage_cache,
    \* one TrySpawn::block_on call and the task it spawns
    bpc,                \* "idle", "recv", "timed_out", "returned"
    timeout,            \* "None" or "Some"
    reply,              \* Result<F::Output> of the call
    task,               \* "none", "running", "finished", "panicked", "cancelled"
    f_polls,            \* polls f still needs before it is ready
    f_output,           \* the output of f
    channel,            \* the messages sent and not yet received
    tx,                 \* the sender is alive
    rx,                 \* the receiver is alive
    sent,               \* what tx.send returned: "none", "ok", "err"
    runtime,            \* the tokio runtime: "running", "stopping", "dropped"
    \* the record of one user name of one tenant in the KV store, and the
    \* UserMgr calls on that name
    kv_record,          \* the SeqValue stored under the key, or NoRecord
    kv_seq,             \* the last sequence number the store has given out
    calls               \* caller -> the UserMgr call it makes

storageVars == <<nextLoc, blockFiles, segStore, snapshots>>
appendVars == <<apc, pulled, persisted, block_metas, blocks_stats,
                summary_row_count, summary_block_count,
                summary_uncompressed_byte_size, summary_compressed_byte_size, aresult>>
fanoutVars == <<segment_locs, next_seg, in_progress, queued_outputs,
                next_outgoing_index, collected, failures>>
pruneVars == <<ppc, table_snapshot_location, push_down, block_pred,
               snapshot_reads, faults, segment_reads, fanoutVars, presult,
               pred_evals, overtaken, cache_hits>>
fuseVars == <<storageVars, appendVars, pruneVars, published_during, storage_cache>>
runtimeVars == <<bpc, timeout, reply, task, f_polls, f_output, channel, tx, rx, sent,
                 runtime>>
userVars == <<kv_record, kv_seq, calls>>
otherVars == <<runtimeVars, userVars>>
vars == <<fuseVars, otherVars>>

NoSegment == [blocks |-> <<>>,
              summary |-> [row_count |-> 0, block_count |-> 0,
                           uncompressed_byte_size |-> 0, compressed_byte_size |-> 0,
                           col_stats |-> <<>>]]
AOk(seg) == [ok |-> TRUE, segment |-> seg, err |-> "none"]
AErr(e) == [ok |-> FALSE, segment |-> NoSegment, err |-> e]
ANone == [ok |-> FALSE, segment |-> NoSegment, err |-> "none"]

POk(bs) == [ok |-> TRUE, blocks |-> bs, err |-> "none"]
PErr(e) == [ok |-> FALSE, blocks |-> <<>>, err |-> e]
PNone == [ok |-> FALSE, blocks |-> <<>>, err |-> "none"]

InitAppend ==
    /\ apc = "idle"
    /\ pulled = <<>>
    /\ persisted = <<>>
    /\ block_metas = <<>>
    /\ blocks_stats = <<>>
    /\ summary_row_count = 0
    /\ summary_block_count = 0
    /\ summary_uncompressed_byte_size = 0
    /\ summary_compressed_byte_size = 0
    /\ aresult = ANone

InitPrune ==
    /\ ppc = "none"
    /\ table_snapshot_location = 0
    /\ push_down = NoPushDown
    /\ block_pred = TruePred
    /\ snapshot_reads = 0
    /\ faults = 0
    /\ segment_reads = <<>>
    /\ segment_locs = <<>>
    /\ next_seg = 1
    /\ in_progress = {}
    /\ queued_outputs = <<>>
    /\ next_outgoing_index = 1
    /\ collected = <<>>
    /\ failures = <<>>
    /\ published_during = 0
    /\ presult = PNone
    /\ pred_evals = <<>>
    /\ cache_hits = NoHits
    /\ overtaken = FALSE

\* Result<F::Output> of block_on
ROk(v) == [ok |-> TRUE, value |-> v, err |-> "none"]
RErr(e) == [ok |-> FALSE, value |-> Null, err |-> e]
RNone == [ok |-> FALSE, value |-> Null, err |-> "none"]

\* no block_on call has been made
InitRuntime ==
    /\ bpc = "idle"
    /\ timeout = "None"
    /\ reply = RNone
    /\ task = "none"
    /\ f_polls = 0
    /\ f_output = Null
    /\ channel = <<>>
    /\ tx = FALSE
    /\ rx = FALSE
    /\ sent = "none"
    /\ runtime = "running"

\* Option<T>: None is the empty sequence, Some(v) the sequence of v
None == <<>>
Some(v) == <<v>>

\* UserInfo of the one name, SeqValue<UserInfo> and the missing record
AuthTypes == {"PlainText", "Sha256"}
UserInfo(password, auth_type) == [password |-> password, auth_type |-> auth_type]
UserInfos == {UserInfo(pw, a) : pw \in Values, a \in AuthTypes}
NoUser == [password |-> Null, auth_type |-> "none"]
NoRecord == [present |-> FALSE, seq |-> 0, user |-> NoUser]
SeqV(s, user_info) == [present |-> TRUE, seq |-> s, user |-> user_info]

\* Result of a UserMgr call: Ok carries u64, Option<u64> or () as an Option
UOk(v) == [ok |-> TRUE, val |-> v, err |-> "none"]
UErr(e) == [ok |-> FALSE, val |-> None, err |-> e]

Callers == 1..MaxCallers
IdleCall == [op |-> "none", pc |-> "idle", new_password |-> None, new_auth |-> None,
             seq |-> None, user_info |-> NoUser, result |-> UErr("none")]

\* an empty store and no call
InitUsers ==
    /\ kv_record = NoRecord
    /\ kv_seq = 0
    /\ calls = [c \in Callers |-> IdleCall]

InitOther ==
    /\ InitRuntime
    /\ InitUsers

\* a new table: no block, no segment, one snapshot that lists no segment
InitStorage ==
    /\ nextLoc = 0
    /\ blockFiles = <<>>
    /\ segStore = <<>>
    /\ snapshots = << <<>> >>

\* the query context has no metadata cache
Init ==
    /\ InitStorage
    /\ storage_cache = NoCache
    /\ InitAppend
    /\ InitPrune
    /\ InitOther

\* ---------------------------------------------------------- append_blocks
\* the call is entered: the accumulators of lines 49-54
AppendStart ==
    /\ apc = "idle"
    /\ Len(segStore) < MaxAppends
    /\ apc' = "running"
    /\ UNCHANGED <<pulled, persisted, block_metas, blocks_stats, summary_row_count,
                   summary_block_count, summary_uncompressed_byte_size,
                   summary_compressed_byte_size, aresult>>
    /\ UNCHANGED <<otherVars, storageVars, pruneVars, published_during, storage_cache>>

\* gen_unique_block_location
gen_unique_block_location_Reused == IF nextLoc = 0 THEN 1 ELSE nextLoc
gen_unique_block_location == nextLoc + 1

\* save_block: the number of bytes written
save_block(block) == FileSize(block)

BlockMetaOf(location, block, blk_stats) ==
    [location |-> [location |-> location, meta_size |-> 0],
     row_count |-> num_rows(block),
     block_size |-> memory_size(block),
     col_stats |-> BlockColStats(blk_stats)]

\* block_metas.push(block_info), line 85
PushBlockMeta_Front(block_info) == <<block_info>> \o block_metas
PushBlockMeta(block_info) == Append(block_metas, block_info)

\* the running totals of lines 88-91
AddBlockCount == summary_block_count + 1
AddRowCount_Overwrite(row_count) == row_count
AddRowCount(row_count) == summary_row_count + row_count
AddCompressed(file_size) == summary_compressed_byte_size + file_size
AddUncompressed(block_in_memory_size) ==
    summary_uncompressed_byte_size + block_in_memory_size

\* the ? of lines 58, 65 and 94: the call returns the error at once
AppendFail_KeepGoing(e) ==
    /\ apc' = "running"
    /\ aresult' = ANone
    /\ UNCHANGED <<block_metas, blocks_stats, summary_row_count, summary_block_count,
                   summary_uncompressed_byte_size, summary_compressed_byte_size>>
AppendFail(e) ==
    /\ apc' = "err"
    /\ aresult' = AErr(e)
    /\ UNCHANGED <<block_metas, blocks_stats, summary_row_count, summary_block_count,
                   summary_uncompressed_byte_size, summary_compressed_byte_size>>

\* one turn of the while loop: stream.next() delivers block; save_ok says
\* whether the storage accepts the write
AppendBatch(block, save_ok) ==
    /\ apc = "running"
    /\ nextLoc < MaxBatches
    /\ pulled' = Append(pulled, block)
    /\ LET blk_stats == block_stats(block)
           location == gen_unique_block_location
       IN  IF ~blk_stats.ok
           THEN /\ AppendFail("StatsError")
                /\ UNCHANGED <<nextLoc, blockFiles, persisted>>
           ELSE /\ nextLoc' = location
                /\ IF ~save_ok
                   THEN /\ AppendFail("StorageError")
                        /\ UNCHANGED <<blockFiles, persisted>>
                   ELSE /\ blockFiles' = (location :> block) @@ blockFiles
                        /\ persisted' = Append(persisted, save_block(block))
                        /\ block_metas' =
                              PushBlockMeta(BlockMetaOf(location, block, blk_stats.stats))
                        /\ blocks_stats' = Append(blocks_stats, blk_stats.stats)
                        /\ summary_block_count' = AddBlockCount
                        /\ summary_row_count' = AddRowCount(num_rows(block))
                        /\ summary_compressed_byte_size' = AddCompressed(save_block(block))
                        /\ summary_uncompressed_byte_size' = AddUncompressed(memory_size(block))
                        /\ UNCHANGED <<apc, aresult>>
    /\ UNCHANGED <<otherVars, segStore, snapshots, pruneVars, published_during,
                   storage_cache>>

\* stream.next() returns None: reduce and return the segment
AppendFinish ==
    /\ apc = "running"
    /\ LET summary == column_stats_reduce(blocks_stats)
       IN  IF ~summary.ok
           THEN /\ apc' = "err"
                /\ aresult' = AErr(summary.err)
           ELSE /\ apc' = "done"
                /\ aresult' = AOk([blocks |-> block_metas,
                                   summary |-> [row_count |-> summary_row_count,
                                                block_count |-> summary_block_count,
                                                uncompressed_byte_size |-> summary_uncompressed_byte_size,
                                                compressed_byte_size |-> summary_compressed_byte_size,
                                                col_stats |-> summary.stats]])
    /\ UNCHANGED <<otherVars, storageVars, pulled, persisted, block_metas, blocks_stats,
                   summary_row_count, summary_block_count,
                   summary_uncompressed_byte_size, summary_compressed_byte_size,
                   pruneVars, published_during, storage_cache>>

\* the call has returned: its locals and its result are gone
AppendReturn ==
    /\ apc' = "idle"
    /\ pulled' = <<>>
    /\ persisted' = <<>>
    /\ block_metas' = <<>>
    /\ blocks_stats' = <<>>
    /\ summary_row_count' = 0
    /\ summary_block_count' = 0
    /\ summary_uncompressed_byte_size' = 0
    /\ summary_compressed_byte_size' = 0
    /\ aresult' = ANone

\* the caller of a successful append stores the segment and publishes a new
\* snapshot: the previous segment list plus the new segment
Publish ==
    /\ apc = "done"
    /\ segStore' = Append(segStore, aresult.segment)
    /\ snapshots' = Append(snapshots,
                           Append(snapshots[Len(snapshots)], Len(segStore) + 1))
    /\ published_during' = IF ppc \in {"none", "done", "err"} THEN published_during
                           ELSE published_during + 1
    /\ AppendReturn
    /\ UNCHANGED <<otherVars, nextLoc, blockFiles, pruneVars, storage_cache>>

\* the caller of a failed append drops the error and publishes nothing
AppendAbandon ==
    /\ apc = "err"
    /\ AppendReturn
    /\ UNCHANGED <<otherVars, storageVars, pruneVars, published_during, storage_cache>>

\* the caller drops the future of a call that waits for the next batch
\* (line 56, stream.next().await): the call is cancelled, its locals are gone
AppendCancel ==
    /\ apc = "running"
    /\ AppendReturn
    /\ UNCHANGED <<otherVars, storageVars, pruneVars, published_during, storage_cache>>

\* ------------------------------------------------------------ BlockPruner
\* BlockPruner::new: the location is fixed from the snapshot the caller holds
PrunerNew ==
    /\ ppc = "none"
    /\ table_snapshot_location' = Len(snapshots)
    /\ ppc' = "new"
    /\ published_during' = 0
    /\ UNCHANGED <<otherVars, storageVars, appendVars, push_down, block_pred, snapshot_reads,
                   faults, segment_reads, fanoutVars, presult, pred_evals, overtaken,
                   cache_hits, storage_cache>>

\* the location apply hands to SnapshotReader::read
SnapshotToRead_Current == Len(snapshots)
SnapshotToRead == table_snapshot_location

\* filter_segment
filter_segment_NoBlockCheck(segment_info, pred) ==
    LET onSummary == Pred(pred, segment_info.summary.col_stats)
    IN  IF ~onSummary.ok THEN PErr("EvalError")
        ELSE IF onSummary.val THEN POk(segment_info.blocks)
        ELSE POk(<<>>)
filter_segment_NoSummaryCheck(segment_info, pred) ==
    LET blocks == segment_info.blocks
        Keep(block_meta) == Pred(pred, block_meta.col_stats).val
    IN  IF \E i \in DOMAIN blocks : ~Pred(pred, blocks[i].col_stats).ok
        THEN PErr("EvalError")
        ELSE POk(SelectSeq(blocks, Keep))
filter_segment(segment_info, pred) ==
    LET onSummary == Pred(pred, segment_info.summary.col_stats)
        blocks == segment_info.blocks
        Keep(block_meta) == Pred(pred, block_meta.col_stats).val
    IN  IF ~onSummary.ok THEN PErr("EvalError")
        ELSE IF onSummary.val
        THEN IF \E i \in DOMAIN blocks : ~Pred(pred, blocks[i].col_stats).ok
             THEN PErr("EvalError")
             ELSE POk(SelectSeq(blocks, Keep))
        ELSE POk(<<>>)

\* the statistics filter_segment calls the predicate on, in order: 0 stands
\* for the Summary, j for the j-th BlockMeta; try_fold stops at the first error
pred_calls(segment_info, pred) ==
    LET onSummary == Pred(pred, segment_info.summary.col_stats)
        blocks == segment_info.blocks
        failing == {j \in DOMAIN blocks : ~Pred(pred, blocks[j].col_stats).ok}
        last == IF failing = {} THEN Len(blocks) ELSE SetMin(failing)
    IN  IF onSummary.ok /\ onSummary.val THEN <<0>> \o [j \in 1..last |-> j]
        ELSE <<0>>

\* SnapshotReader::read and SegmentReader::read look the location up in the
\* cache first
SnapshotCacheHit ==
    storage_cache.enabled /\ CacheHas(storage_cache.snapshots, SnapshotToRead)
SegmentCacheHit(loc) ==
    storage_cache.enabled /\ CacheHas(storage_cache.segments, loc)

\* apply, lines 57-71: compile the first filter, then issue the snapshot read
ApplyStart_ReadFirst(pd) ==
    /\ ppc = "new"
    /\ push_down' = pd
    /\ snapshot_reads' = snapshot_reads + 1
    /\ IF HasFilter(pd) /\ ~RangeFilter_try_create(UsedFilter(pd)).ok
       THEN /\ ppc' = "err"
            /\ presult' = PErr("CompileError")
            /\ UNCHANGED block_pred
       ELSE /\ block_pred' = IF HasFilter(pd)
                             THEN FilterPred(RangeFilter_try_create(UsedFilter(pd)).expr)
                             ELSE TruePred
            /\ ppc' = "read_snapshot"
            /\ UNCHANGED presult
    /\ cache_hits' = [cache_hits EXCEPT !.snapshot =
                          IF SnapshotCacheHit
                          THEN <<CacheGet(storage_cache.snapshots, SnapshotToRead)>>
                          ELSE <<>>]
    /\ UNCHANGED <<otherVars, storageVars, appendVars, table_snapshot_location, faults,
                   segment_reads, fanoutVars, published_during, pred_evals, overtaken,
                   storage_cache>>
ApplyStart(pd) ==
    /\ ppc = "new"
    /\ push_down' = pd
    /\ IF HasFilter(pd) /\ ~RangeFilter_try_create(UsedFilter(pd)).ok
       THEN /\ ppc' = "err"
            /\ presult' = PErr("CompileError")
            /\ UNCHANGED <<block_pred, snapshot_reads, cache_hits>>
       ELSE /\ block_pred' = IF HasFilter(pd)
                             THEN FilterPred(RangeFilter_try_create(UsedFilter(pd)).expr)
                             ELSE TruePred
            /\ snapshot_reads' = snapshot_reads + 1
            /\ cache_hits' = [cache_hits EXCEPT !.snapshot =
                                  IF SnapshotCacheHit
                                  THEN <<CacheGet(storage_cache.snapshots,
                                                  SnapshotToRead)>>
                                  ELSE <<>>]
            /\ ppc' = "read_snapshot"
            /\ UNCHANGED presult
    /\ UNCHANGED <<otherVars, storageVars, appendVars, table_snapshot_location, faults,
                   segment_reads, fanoutVars, published_during, pred_evals, overtaken,
                   storage_cache>>

\* segment_locs.is_empty()
IsEmptySnapshot_Never(locs) == FALSE
IsEmptySnapshot(locs) == locs = <<>>

\* apply, lines 71-77: the snapshot read returns
SnapshotReadDone(read_ok) ==
    /\ ppc = "read_snapshot"
    /\ read_ok \/ faults < MaxFaults
    /\ LET hit == cache_hits.snapshot # <<>>
           snapshot == IF hit THEN cache_hits.snapshot[1] ELSE snapshots[SnapshotToRead]
       IN  /\ hit => read_ok
           /\ faults' = IF read_ok THEN faults ELSE faults + 1
           /\ storage_cache' =
                  IF storage_cache.enabled /\ ~hit /\ read_ok
                  THEN [storage_cache EXCEPT !.snapshots =
                           CachePut(@, SnapshotToRead, snapshot)]
                  ELSE storage_cache
           /\ IF ~read_ok
              THEN /\ ppc' = "err"
                   /\ presult' = PErr("SnapshotReadError")
                   /\ UNCHANGED segment_locs
              ELSE /\ segment_locs' = snapshot
                   /\ IF IsEmptySnapshot(snapshot)
                      THEN /\ ppc' = "done"
                           /\ presult' = POk(<<>>)
                      ELSE /\ ppc' = "fanout"
                           /\ UNCHANGED presult
    /\ UNCHANGED <<otherVars, storageVars, appendVars, table_snapshot_location, push_down,
                   block_pred, snapshot_reads, segment_reads, next_seg, in_progress,
                   queued_outputs, next_outgoing_index, collected, failures,
                   published_during, pred_evals, overtaken, cache_hits>>

\* .buffered(n): the futures it holds, running or finished and not yet yielded
Min(a, b) == IF a <= b THEN a ELSE b
BufferedLen == Cardinality(in_progress) + Cardinality(DOMAIN queued_outputs)
BufferedMax_Unbounded == Len(segment_locs)
BufferedMax_OneLess == Min(MaxBuffered, Len(segment_locs)) - 1
BufferedMax == Min(MaxBuffered, Len(segment_locs))
CanStart == BufferedLen < BufferedMax /\ next_seg <= Len(segment_locs)

\* Buffered::poll_next fills its queue: the future of the next segment load
\* is made and pushed; it runs when the queue is polled
StartLoad ==
    /\ ppc = "fanout"
    /\ CanStart
    /\ in_progress' = in_progress \cup {next_seg}
    /\ next_seg' = next_seg + 1
    /\ UNCHANGED <<otherVars, storageVars, appendVars, ppc, table_snapshot_location, push_down,
                   block_pred, snapshot_reads, faults, segment_reads, segment_locs,
                   queued_outputs, next_outgoing_index, collected, failures, presult,
                   published_during, pred_evals, overtaken, cache_hits, storage_cache>>

\* the loads whose future has been pushed and not yet polled; FuturesUnordered
\* polls new futures in the order they were pushed
Unpolled == (Len(segment_reads) + 1)..(next_seg - 1)

\* Buffered::poll_next polls the futures of FuturesOrdered only after it has
\* filled its queue, and FuturesOrdered only when the output of the next
\* segment is not queued already
PollsFutures ==
    /\ ppc = "fanout"
    /\ ~CanStart
    /\ next_outgoing_index \notin DOMAIN queued_outputs

\* line 86, .await? : a failed read is returned as the error of the load
ReadsAfterFailure_Retry(reads, loc) == Append(reads, loc)
ReadsAfterFailure(reads, loc) == reads

\* the future of segment i is polled with its read returned: on a successful
\* read filter_segment runs, and the output of the load is handed to
\* FuturesOrdered; reads are the reads issued so far
LoadReturns(i, read_ok, hit, segment_info, reads) ==
    LET seg_loc == segment_locs[i]
        out == IF read_ok THEN filter_segment(segment_info, block_pred)
               ELSE PErr("SegmentReadError")
    IN  /\ read_ok \/ faults < MaxFaults
        /\ hit => read_ok
        /\ faults' = IF read_ok THEN faults ELSE faults + 1
        /\ segment_reads' = IF read_ok THEN reads ELSE ReadsAfterFailure(reads, seg_loc)
        /\ storage_cache' =
               IF storage_cache.enabled /\ ~hit /\ read_ok
               THEN [storage_cache EXCEPT !.segments = CachePut(@, seg_loc, segment_info)]
               ELSE storage_cache
        /\ pred_evals' = IF read_ok
                         THEN (i :> pred_calls(segment_info, block_pred)) @@ pred_evals
                         ELSE pred_evals
        /\ queued_outputs' = (i :> out) @@ queued_outputs
        /\ failures' = IF out.ok THEN failures ELSE (i :> out.err) @@ failures
        /\ in_progress' = in_progress \ {i}
        /\ overtaken' = (overtaken \/ \E j \in in_progress : j < i)

\* what the first poll of a load future gives: the read suspends, or it
\* returns at once, with the segment or with an error
FirstPolls == {"Pending", "Ok", "Err"}

\* FuturesUnordered polls one new future, the one pushed first: it calls
\* SegmentReader::read, which looks its location up in the cache. A read that
\* returns at this poll ends the load before any other future is polled.
PollLoad(first_poll) ==
    /\ PollsFutures
    /\ Unpolled # {}
    /\ LET i == Len(segment_reads) + 1
           seg_loc == segment_locs[i]
           hit == SegmentCacheHit(seg_loc)
           reads == Append(segment_reads, seg_loc)
       IN  /\ cache_hits' = [cache_hits EXCEPT !.segments =
                  IF hit THEN (i :> CacheGet(storage_cache.segments, seg_loc)) @@ @
                  ELSE @]
           /\ IF first_poll = "Pending"
              THEN /\ segment_reads' = reads
                   /\ UNCHANGED <<faults, storage_cache, pred_evals, queued_outputs,
                                  failures, in_progress, overtaken>>
              ELSE LoadReturns(i, first_poll = "Ok", hit,
                               IF hit THEN CacheGet(storage_cache.segments, seg_loc)
                               ELSE segStore[seg_loc],
                               reads)
    /\ UNCHANGED <<otherVars, storageVars, appendVars, ppc, table_snapshot_location, push_down,
                   block_pred, snapshot_reads, segment_locs, next_seg,
                   next_outgoing_index, collected, presult, published_during>>

\* FuturesUnordered polls the future of segment i, woken because its read
\* has returned
LoadDone(i, read_ok) ==
    /\ PollsFutures
    /\ i \in in_progress
    /\ i <= Len(segment_reads)
    /\ LoadReturns(i, read_ok, i \in DOMAIN cache_hits.segments,
                   IF i \in DOMAIN cache_hits.segments THEN cache_hits.segments[i]
                   ELSE segStore[segment_locs[i]],
                   segment_reads)
    /\ UNCHANGED <<otherVars, storageVars, appendVars, ppc, table_snapshot_location, push_down,
                   block_pred, snapshot_reads, segment_locs, next_seg,
                   next_outgoing_index, collected, presult, published_during,
                   cache_hits>>

RemoveKey(f, k) == [x \in (DOMAIN f) \ {k} |-> f[x]]

\* what the caller gets when the stream yields an error
ErrorResult_Partial(out) == [ok |-> FALSE, blocks |-> Flatten(collected), err |-> out.err]
ErrorResult(out) == PErr(out.err)

\* the output the ordered buffer hands out next: that of the load pushed
\* first among those not yet yielded, whatever has completed
OutgoingIndex_Completed ==
    IF DOMAIN queued_outputs = {} THEN next_outgoing_index
    ELSE CHOOSE i \in DOMAIN queued_outputs : \A j \in DOMAIN queued_outputs : j <= i
OutgoingIndex == next_outgoing_index

\* the buffered stream yields the output of the next segment, in snapshot
\* order, to try_collect; an Err ends the call and drops the running loads,
\* the last Ok ends it with the flattened blocks
Yield ==
    /\ ppc = "fanout"
    /\ ~CanStart
    /\ OutgoingIndex \in DOMAIN queued_outputs
    /\ LET out == queued_outputs[OutgoingIndex]
       IN  IF ~out.ok
           THEN /\ ppc' = "err"
                /\ presult' = ErrorResult(out)
                /\ in_progress' = {}
                /\ queued_outputs' = <<>>
                /\ UNCHANGED <<collected, next_outgoing_index>>
           ELSE /\ collected' = Append(collected, out.blocks)
                /\ next_outgoing_index' = next_outgoing_index + 1
                /\ queued_outputs' = RemoveKey(queued_outputs, OutgoingIndex)
                /\ UNCHANGED in_progress
                /\ IF next_outgoing_index = Len(segment_locs)
                   THEN /\ ppc' = "done"
                        /\ presult' = POk(Flatten(Append(collected, out.blocks)))
                   ELSE UNCHANGED <<ppc, presult>>
    /\ UNCHANGED <<otherVars, storageVars, appendVars, table_snapshot_location, push_down,
                   block_pred, snapshot_reads, faults, segment_reads, segment_locs,
                   next_seg, failures, published_during, pred_evals, overtaken, cache_hits,
                   storage_cache>>

\* ------------------------------------------------------------- block_on
\* the drop of the JoinHandle _jh when block_on returns: the task is detached
DropJoinHandle_Abort(t) == IF t = "running" THEN "cancelled" ELSE t
DropJoinHandle(t) == t

\* recv_timeout maps both of its errors to ErrorCode::Timeout (line 65); the
\* error of recv is converted by from_std_error (line 66)
RecvError == IF timeout = "Some" THEN "Timeout" ELSE "StdError"

\* block_on up to its wait: the channel is made, the task is spawned and the
\* caller blocks in recv or recv_timeout (lines 57-66); f needs polls polls
\* and then yields out
BlockOn(to, polls, out) ==
    /\ bpc = "idle"
    /\ runtime = "running"
    /\ bpc' = "recv"
    /\ timeout' = to
    /\ task' = "running"
    /\ f_polls' = polls
    /\ f_output' = out
    /\ channel' = <<>>
    /\ tx' = TRUE
    /\ rx' = TRUE
    /\ UNCHANGED <<reply, sent, runtime>>
    /\ UNCHANGED <<fuseVars, userVars>>

\* the runtime polls the task and f is not ready yet (line 59)
TaskPoll ==
    /\ task = "running"
    /\ f_polls > 0
    /\ f_polls' = f_polls - 1
    /\ UNCHANGED <<bpc, timeout, reply, task, f_output, channel, tx, rx, sent, runtime>>
    /\ UNCHANGED <<fuseVars, userVars>>

\* f is ready: the task sends its output and ends (lines 59-60). A send to
\* a dropped receiver fails, and the task ignores what send returned
TaskSend ==
    /\ task = "running"
    /\ f_polls = 0
    /\ IF rx
       THEN channel' = Append(channel, f_output) /\ sent' = "ok"
       ELSE channel' = channel /\ sent' = "err"
    /\ task' = "finished"
    /\ tx' = FALSE
    /\ UNCHANGED <<bpc, timeout, reply, f_polls, f_output, rx, runtime>>
    /\ UNCHANGED <<fuseVars, userVars>>

\* f panics while polled: the runtime drops the task, and the sender with it
TaskPanic ==
    /\ task = "running"
    /\ task' = "panicked"
    /\ tx' = FALSE
    /\ UNCHANGED <<bpc, timeout, reply, f_polls, f_output, channel, rx, sent, runtime>>
    /\ UNCHANGED <<fuseVars, userVars>>

\* block_on returns result: the receiver and the JoinHandle are dropped
BlockOnReturn(result) ==
    /\ bpc' = "returned"
    /\ reply' = result
    /\ rx' = FALSE
    /\ task' = DropJoinHandle(task)
    /\ UNCHANGED <<timeout, f_polls, f_output, tx, sent, runtime>>
    /\ UNCHANGED <<fuseVars, userVars>>

\* recv or recv_timeout takes the message: Ok(reply) (line 68)
Recv ==
    /\ bpc = "recv"
    /\ channel # <<>>
    /\ channel' = Tail(channel)
    /\ BlockOnReturn(ROk(Head(channel)))

\* the sender was dropped with nothing sent: both recv and recv_timeout fail
RecvDisconnected ==
    /\ bpc = "recv"
    /\ channel = <<>>
    /\ ~tx
    /\ channel' = channel
    /\ BlockOnReturn(RErr(RecvError))

\* the timeout of recv_timeout elapses with no message in the channel: it
\* returns its error, and the receiver lives until block_on has returned
RecvTimeout ==
    /\ bpc = "recv"
    /\ timeout = "Some"
    /\ channel = <<>>
    /\ bpc' = "timed_out"
    /\ UNCHANGED <<timeout, reply, task, f_polls, f_output, channel, tx, rx, sent,
                   runtime>>
    /\ UNCHANGED <<fuseVars, userVars>>

\* the ? of line 65 returns the error; a message sent in between is dropped
\* with the receiver
ReturnTimeout ==
    /\ bpc = "timed_out"
    /\ channel' = <<>>
    /\ BlockOnReturn(RErr(RecvError))

\* the Runtime is dropped, and its Dropper with it: drop sends the stop signal
\* (lines 159-164). block_on borrows the Runtime, so the drop comes before a
\* call or after its return
DropperDrop ==
    /\ runtime = "running"
    /\ bpc \in {"idle", "returned"}
    /\ runtime' = "stopping"
    /\ UNCHANGED <<bpc, timeout, reply, task, f_polls, f_output, channel, tx, rx, sent>>
    /\ UNCHANGED <<fuseVars, userVars>>

\* the thread of line 118 gets the stop signal and drops the tokio runtime: a
\* task that is still running is cancelled, f is dropped unfinished and the
\* sender with it, nothing is sent
RuntimeShutdown ==
    /\ runtime = "stopping"
    /\ runtime' = "dropped"
    /\ IF task = "running"
       THEN task' = "cancelled" /\ tx' = FALSE
       ELSE UNCHANGED <<task, tx>>
    /\ UNCHANGED <<bpc, timeout, reply, f_polls, f_output, channel, rx, sent>>
    /\ UNCHANGED <<fuseVars, userVars>>

\* -------------------------------------------------------------- UserMgr
\* MatchSeq and its match against the sequence number of a record (0 when
\* there is none)
MatchAny == [kind |-> "Any", seq |-> 0]
Exact(s) == [kind |-> "Exact", seq |-> s]
GE(s) == [kind |-> "GE", seq |-> s]
match_seq(ms, rec) ==
    CASE ms.kind = "Any" -> TRUE
      [] ms.kind = "Exact" -> rec.seq = ms.seq
      [] ms.kind = "GE" -> rec.seq >= ms.seq
\* MatchSeq::from(Option<u64>)
MatchSeqFrom(seq) == IF seq = None THEN MatchAny ELSE Exact(seq[1])

\* KVApi::upsert_kv on the key of the user: the reply (prev, result) and the
\* record and counter it leaves. A request whose seq does not match changes
\* nothing and answers (prev, prev); a write gets the next sequence number
upsert_kv(ms, value) ==
    IF ~match_seq(ms, kv_record)
    THEN [prev |-> kv_record, result |-> kv_record, record |-> kv_record, seq |-> kv_seq]
    ELSE IF value # None
    THEN [prev |-> kv_record, result |-> SeqV(kv_seq + 1, value[1]),
          record |-> SeqV(kv_seq + 1, value[1]), seq |-> kv_seq + 1]
    ELSE [prev |-> kv_record, result |-> NoRecord, record |-> NoRecord, seq |-> kv_seq]

\* caller c makes its call: the callers are numbered in the order in which
\* they call
Calls(c) ==
    /\ calls[c].pc = "idle"
    /\ \A d \in Callers : d < c => calls[d].pc # "idle"

\* the call of caller c has returned result
Returned(c, op, new_password, new_auth, seq, result) ==
    calls' = [calls EXCEPT ![c] =
                 [op |-> op, pc |-> "done", new_password |-> new_password,
                  new_auth |-> new_auth, seq |-> seq, user_info |-> NoUser,
                  result |-> result]]

\* add_user: line 51
AddMatchSeq_Any == MatchAny
AddMatchSeq == Exact(0)

\* add_user: the match of lines 59-77
AddResult(res) ==
    IF ~res.prev.present /\ res.result.present THEN UOk(Some(res.result.seq))
    ELSE IF res.prev.present THEN UErr("UserAlreadyExists")
    ELSE UErr("UnknownException")

add_user(c, user_info) ==
    /\ Calls(c)
    /\ LET res == upsert_kv(AddMatchSeq, Some(user_info))
       IN  /\ kv_record' = res.record
           /\ kv_seq' = res.seq
           /\ Returned(c, "add_user", Some(user_info.password), Some(user_info.auth_type),
                       None, AddResult(res))
    /\ UNCHANGED <<fuseVars, runtimeVars>>

\* get_user on the record the store returned (lines 84-91)
get_user(rec, seq) ==
    IF ~rec.present THEN [ok |-> FALSE, seq |-> 0, user |-> NoUser]
    ELSE IF match_seq(MatchSeqFrom(seq), rec)
    THEN [ok |-> TRUE, seq |-> rec.seq, user |-> rec.user]
    ELSE [ok |-> FALSE, seq |-> 0, user |-> NoUser]

\* update_user: lines 133-136
UpdateMatchSeq(seq) == IF seq = None THEN GE(1) ELSE Exact(seq[1])

\* update_user: the new UserInfo of lines 118-128
MergedUserInfo(old, new_password, new_auth) ==
    UserInfo(IF new_password = None THEN old.password ELSE new_password[1],
             IF new_auth = None THEN old.auth_type ELSE new_auth[1])

\* update_user up to its upsert (lines 114-131): nothing to change returns
\* Ok(seq) at once; a partial update reads the user first, and returns the
\* error of get_user
update_user(c, new_password, new_auth, seq) ==
    /\ Calls(c)
    /\ IF new_password = None /\ new_auth = None
       THEN Returned(c, "update_user", new_password, new_auth, seq, UOk(seq))
       ELSE LET partial_update == new_auth = None \/ new_password = None
                user_val_seq == get_user(kv_record, seq)
            IN  IF partial_update /\ ~user_val_seq.ok
                THEN Returned(c, "update_user", new_password, new_auth, seq,
                              UErr("UnknownUser"))
                ELSE calls' = [calls EXCEPT ![c] =
                                  [op |-> "update_user", pc |-> "upsert",
                                   new_password |-> new_password, new_auth |-> new_auth,
                                   seq |-> seq,
                                   user_info |-> MergedUserInfo(user_val_seq.user,
                                                                new_password, new_auth),
                                   result |-> UErr("none")]]
    /\ UNCHANGED <<kv_record, kv_seq>>
    /\ UNCHANGED <<fuseVars, runtimeVars>>

\* update_user: the match of lines 140-146
UpdateResult(res) ==
    IF res.result.present THEN UOk(Some(res.result.seq)) ELSE UErr("UnknownUser")

\* update_user: the upsert and the result (lines 137-146)
update_user_upsert(c) ==
    /\ calls[c].pc = "upsert"
    /\ LET call == calls[c]
           res == upsert_kv(UpdateMatchSeq(call.seq), Some(call.user_info))
       IN  /\ kv_record' = res.record
           /\ kv_seq' = res.seq
           /\ Returned(c, "update_user", call.new_password, call.new_auth, call.seq,
                       UpdateResult(res))
    /\ UNCHANGED <<fuseVars, runtimeVars>>

\* drop_user: lines 152-156
DropResult(res) ==
    IF res.prev.present /\ ~res.result.present THEN UOk(None) ELSE UErr("UnknownUser")

drop_user(c, seq) ==
    /\ Calls(c)
    /\ LET res == upsert_kv(MatchSeqFrom(seq), None)
       IN  /\ kv_record' = res.record
           /\ kv_seq' = res.seq
           /\ Returned(c, "drop_user", None, None, seq, DropResult(res))
    /\ UNCHANGED <<fuseVars, runtimeVars>>

\* ---------------------------------------------------------- specifications
PruneSteps ==
    \/ \E pd \in PushDowns : ApplyStart(pd)
    \/ \E read_ok \in BOOLEAN : SnapshotReadDone(read_ok)
    \/ StartLoad
    \/ \E first_poll \in FirstPolls : PollLoad(first_poll)
    \/ \E i \in 1..MaxSegments, read_ok \in BOOLEAN : LoadDone(i, read_ok)
    \/ Yield

\* Spec: a table is written, then pruned. The streams deliver batches of the
\* table schema and the block writes succeed (SpecAppend has the failing
\* appends); the pruner is built on the current snapshot once no append call
\* is under way.
Next ==
    \/ ppc = "none" /\ AppendStart
    \/ ppc = "none" /\ \E block \in TableBlocks : AppendBatch(block, TRUE)
    \/ ppc = "none" /\ AppendFinish
    \/ ppc = "none" /\ Publish
    \/ apc = "idle" /\ PrunerNew
    \/ PruneSteps

Spec == Init /\ [][Next]_vars

\* SpecAppend: the write path alone, with every batch and failing writes
NextAppend ==
    \/ AppendStart
    \/ \E block \in DataBlocks, save_ok \in BOOLEAN : AppendBatch(block, save_ok)
    \/ AppendFinish
    \/ Publish
    \/ AppendAbandon
    \/ AppendCancel

SpecAppend == Init /\ [][NextAppend]_vars

\* SpecFanout: one apply call without filter on a table of up to MaxSegments
\* segments, each the segment of one append of one batch
FanoutBlock == [columns |-> <<ArrayColumn(<<0>>)>>]
FanoutSegment(i) ==
    [blocks |-> <<BlockMetaOf(i, FanoutBlock, block_stats(FanoutBlock).stats)>>,
     summary |-> [row_count |-> num_rows(FanoutBlock),
                  block_count |-> 1,
                  uncompressed_byte_size |-> memory_size(FanoutBlock),
                  compressed_byte_size |-> save_block(FanoutBlock),
                  col_stats |-> column_stats_reduce(<<block_stats(FanoutBlock).stats>>).stats]]

InitFanout ==
    /\ \E n \in 0..MaxSegments :
          /\ nextLoc = n
          /\ blockFiles = [i \in 1..n |-> FanoutBlock]
          /\ segStore = [i \in 1..n |-> FanoutSegment(i)]
          /\ snapshots = [k \in 1..(n + 1) |-> [i \in 1..(k - 1) |-> i]]
    /\ storage_cache = NoCache
    /\ InitAppend
    /\ InitPrune
    /\ InitOther

NextFanout ==
    \/ PrunerNew
    \/ ApplyStart(NoPushDown)
    \/ \E read_ok \in BOOLEAN : SnapshotReadDone(read_ok)
    \/ StartLoad
    \/ \E first_poll \in FirstPolls : PollLoad(first_poll)
    \/ \E i \in 1..MaxSegments, read_ok \in BOOLEAN : LoadDone(i, read_ok)
    \/ Yield

SpecFanout == InitFanout /\ [][NextFanout]_vars

\* SpecFanoutFair: SpecFanout for a caller that keeps polling the future of
\* apply, on a storage that answers every read it was sent: the steps of the
\* call are taken when they can be, and the read of the snapshot and of each
\* segment returns, with the data or with an error
FairApply ==
    /\ WF_vars(\E read_ok \in BOOLEAN : SnapshotReadDone(read_ok))
    /\ WF_vars(StartLoad)
    /\ WF_vars(\E first_poll \in FirstPolls : PollLoad(first_poll))
    /\ \A i \in 1..MaxSegments : WF_vars(\E read_ok \in BOOLEAN : LoadDone(i, read_ok))
    /\ WF_vars(Yield)

SpecFanoutFair == InitFanout /\ [][NextFanout]_vars /\ FairApply

\* SpecIso: appends, publications and one apply call in any interleaving; the
\* streams deliver array batches of at most one row, and the query either has
\* no filter or one comparison
IsoBlocks == {b \in TableBlocks : b.columns[1].kind = "Array" /\ num_rows(b) <= 1}

IsoPushDowns == {NoPushDown, Extras(<<Cmp(">=", 0, 1)>>)}

NextIso ==
    \/ AppendStart
    \/ \E block \in IsoBlocks : AppendBatch(block, TRUE)
    \/ AppendFinish
    \/ Publish
    \/ PrunerNew
    \/ \E pd \in IsoPushDowns : ApplyStart(pd)
    \/ \E read_ok \in BOOLEAN : SnapshotReadDone(read_ok)
    \/ StartLoad
    \/ \E first_poll \in FirstPolls : PollLoad(first_poll)
    \/ \E i \in 1..MaxSegments, read_ok \in BOOLEAN : LoadDone(i, read_ok)
    \/ Yield

SpecIso == Init /\ [][NextIso]_vars

\* SpecCache: a table is written, then pruned by a query whose context has a
\* metadata cache; other queries that share the cache resolve snapshots and
\* segments through it at any time from the moment the pruner is built (what
\* they cached earlier they can as well cache then; of the snapshots only the
\* one the pruner reads matters). The streams deliver array batches of one
\* value.
CacheBlocks == {[columns |-> <<ArrayColumn(<<v>>)>>] : v \in Values}

InitCache ==
    /\ InitStorage
    /\ storage_cache = EmptyCache
    /\ InitAppend
    /\ InitPrune
    /\ InitOther

\* another query reads a snapshot or a segment through the shared cache: on a
\* miss the reader puts what it read from storage
OtherQueryReadsSnapshot(loc) ==
    /\ storage_cache.enabled
    /\ loc \in DOMAIN snapshots
    /\ ~CacheHas(storage_cache.snapshots, loc)
    /\ storage_cache' = [storage_cache EXCEPT !.snapshots = CachePut(@, loc, snapshots[loc])]
    /\ UNCHANGED <<otherVars, storageVars, appendVars, pruneVars, published_during>>

OtherQueryReadsSegment(loc) ==
    /\ storage_cache.enabled
    /\ loc \in DOMAIN segStore
    /\ ~CacheHas(storage_cache.segments, loc)
    /\ storage_cache' = [storage_cache EXCEPT !.segments = CachePut(@, loc, segStore[loc])]
    /\ UNCHANGED <<otherVars, storageVars, appendVars, pruneVars, published_during>>

NextCache ==
    \/ ppc = "none" /\ AppendStart
    \/ ppc = "none" /\ \E block \in CacheBlocks : AppendBatch(block, TRUE)
    \/ ppc = "none" /\ AppendFinish
    \/ ppc = "none" /\ Publish
    \/ apc = "idle" /\ PrunerNew
    \/ ppc # "none" /\ OtherQueryReadsSnapshot(table_snapshot_location)
    \/ ppc # "none" /\ \E loc \in 1..MaxAppends : OtherQueryReadsSegment(loc)
    \/ \E pd \in IsoPushDowns : ApplyStart(pd)
    \/ \E read_ok \in BOOLEAN : SnapshotReadDone(read_ok)
    \/ StartLoad
    \/ \E first_poll \in FirstPolls : PollLoad(first_poll)
    \/ \E i \in 1..MaxSegments, read_ok \in BOOLEAN : LoadDone(i, read_ok)
    \/ Yield

SpecCache == InitCache /\ [][NextCache]_vars

\* SpecTable: one apply call on a table that earlier appends have written.
\* The batches are those of the design's example (x in [0,10], [20,30] and
\* [40,50]) and a batch of one null; the table has up to two segments and up to
\* three blocks.
ExampleBlocks ==
    {[columns |-> <<ArrayColumn(r)>>] : r \in {<<0, 10>>, <<20, 30>>, <<40, 50>>, <<Null>>}}
ExampleSegments ==
    {<<a>> : a \in ExampleBlocks} \cup {<<a, b>> : a, b \in ExampleBlocks}
ExampleTables ==
    {<<>>} \cup {<<s>> : s \in ExampleSegments}
    \cup {<<s, t>> : s \in ExampleSegments,
                     t \in {u \in ExampleSegments : Len(u) = 1}}
    \cup {<<s, t>> : s \in {u \in ExampleSegments : Len(u) = 1},
                     t \in ExampleSegments}

\* the SegmentInfo append_blocks returns for a stream of these batches, the
\* first of them written at location first
SegmentOf(stream, first) ==
    [blocks |-> [j \in 1..Len(stream) |->
                    BlockMetaOf(first + j - 1, stream[j], block_stats(stream[j]).stats)],
     summary |-> [row_count |-> SumSeq([j \in 1..Len(stream) |-> num_rows(stream[j])]),
                  block_count |-> Len(stream),
                  uncompressed_byte_size |->
                      SumSeq([j \in 1..Len(stream) |-> memory_size(stream[j])]),
                  compressed_byte_size |->
                      SumSeq([j \in 1..Len(stream) |-> save_block(stream[j])]),
                  col_stats |->
                      column_stats_reduce(
                          [j \in 1..Len(stream) |-> block_stats(stream[j]).stats]).stats]]

ExampleFilters ==
    {Cmp(op, 0, l) : op \in CmpOps, l \in {10, 25, 40}}
    \cup {Conj(Cmp(">=", 0, 20), Cmp("<=", 0, 30)), UnknownColumn, UnsupportedOp}
\* filter lists of two: the second does not compile, matches no row or
\* matches other rows than the first
ExampleFilterPairs ==
    {<<f, g>> : f \in {Cmp(">", 0, 25), UnknownColumn},
                g \in {UnknownColumn, UnsupportedOp, Cmp(">", 0, 60), Cmp("<=", 0, 10)}}
ExamplePushDowns ==
    {NoPushDown} \cup {Extras(<<f>>) : f \in ExampleFilters}
    \cup {Extras(fs) : fs \in ExampleFilterPairs}

InitTable ==
    /\ \E table \in ExampleTables :
          LET n == Len(table)
              before(i) == SumSeq([k \in 1..(i - 1) |-> Len(table[k])])
          IN  /\ nextLoc = before(n + 1)
              /\ blockFiles = Flatten(table)
              /\ segStore = [i \in 1..n |-> SegmentOf(table[i], before(i) + 1)]
              /\ snapshots = [k \in 1..(n + 1) |-> [i \in 1..(k - 1) |-> i]]
    /\ storage_cache = NoCache
    /\ InitAppend
    /\ InitPrune
    /\ InitOther

NextTable ==
    \/ PrunerNew
    \/ \E pd \in ExamplePushDowns : ApplyStart(pd)
    \/ \E read_ok \in BOOLEAN : SnapshotReadDone(read_ok)
    \/ StartLoad
    \/ \E first_poll \in FirstPolls : PollLoad(first_poll)
    \/ \E i \in 1..MaxSegments, read_ok \in BOOLEAN : LoadDone(i, read_ok)
    \/ Yield

SpecTable == InitTable /\ [][NextTable]_vars

\* SpecBlockOn: one block_on call with or without timeout on a future that
\* needs up to MaxPolls polls, yields any value and may panic. The runtime
\* keeps polling the task it was given until it is shut down, and f becomes
\* ready after its polls; the Runtime can be dropped before the call or after
\* its return.
NextBlockOn ==
    \/ \E to \in {"None", "Some"}, polls \in 0..MaxPolls, out \in Values :
          BlockOn(to, polls, out)
    \/ TaskPoll
    \/ TaskSend
    \/ TaskPanic
    \/ Recv
    \/ RecvDisconnected
    \/ RecvTimeout
    \/ ReturnTimeout
    \/ DropperDrop
    \/ RuntimeShutdown

\* the tokio runtime keeps polling a task that is not finished, and the
\* thread that waits for the stop signal acts on it
SpecBlockOn ==
    /\ Init /\ [][NextBlockOn]_vars
    /\ WF_vars(TaskPoll) /\ WF_vars(TaskSend) /\ WF_vars(RuntimeShutdown)

\* SpecUser: MaxCallers callers make one UserMgr call each on the same user
\* name, in any interleaving of their requests to the store; the store is
\* empty or holds the user an earlier add_user has created.
OptionOf(S) == {None} \cup {Some(v) : v \in S}

InitUser ==
    /\ InitStorage
    /\ storage_cache = NoCache
    /\ InitAppend
    /\ InitPrune
    /\ InitRuntime
    /\ \/ kv_record = NoRecord /\ kv_seq = 0
       \/ \E u \in UserInfos : kv_record = SeqV(1, u) /\ kv_seq = 1
    /\ calls = [c \in Callers |-> IdleCall]

NextUser ==
    \/ \E c \in Callers, u \in UserInfos : add_user(c, u)
    \/ \E c \in Callers, pw \in OptionOf(Values), a \in OptionOf(AuthTypes),
          seq \in OptionOf(0..MaxSeqArg) : update_user(c, pw, a, seq)
    \/ \E c \in Callers : update_user_upsert(c)
    \/ \E c \in Callers, seq \in OptionOf(0..MaxSeqArg) : drop_user(c, seq)

SpecUser == InitUser /\ [][NextUser]_vars

\* ------------------------------------------------------------------ claims
\* what the pruner was built on
PrunedSnapshot == snapshots[table_snapshot_location]
PrunedSegment(i) == segStore[PrunedSnapshot[i]]
AllBlocksOfSnapshot ==
    Flatten([i \in 1..Len(PrunedSnapshot) |-> PrunedSegment(i).blocks])
BlockData(block_meta) == blockFiles[block_meta.location.location]

\* C1: pruning soundness. When apply returns a block list for a filter, every
\* block of every segment of the snapshot that holds at least one row
\* satisfying the filter is in the list.
C1_PruningSound ==
    (ppc = "done" /\ ~block_pred.always) =>
        \A i \in 1..Len(PrunedSnapshot) :
            \A j \in 1..Len(PrunedSegment(i).blocks) :
                LET block_meta == PrunedSegment(i).blocks[j]
                IN  BlockHasMatch(block_pred.expr, BlockData(block_meta))
                        => \E k \in 1..Len(presult.blocks) : presult.blocks[k] = block_meta

\* a filter kept a block with a matching row and pruned another block
C1_Witness ==
    /\ ppc = "done"
    /\ ~block_pred.always
    /\ Len(presult.blocks) = 1
    /\ Len(AllBlocksOfSnapshot) = 2
    /\ BlockHasMatch(block_pred.expr, BlockData(presult.blocks[1]))

\* C2: the Summary counters of a returned segment are the sums over its blocks:
\* rows, number of blocks (one per batch), bytes written and in-memory bytes.
C2_SummaryCounters ==
    (apc = "done") =>
        LET seg == aresult.segment
        IN  /\ aresult.ok
            /\ seg.summary.row_count =
                  SumSeq([i \in 1..Len(seg.blocks) |-> seg.blocks[i].row_count])
            /\ seg.summary.block_count = Len(seg.blocks)
            /\ Len(seg.blocks) = Len(pulled)
            /\ seg.summary.compressed_byte_size = SumSeq(persisted)
            /\ seg.summary.uncompressed_byte_size =
                  SumSeq([i \in 1..Len(pulled) |-> memory_size(pulled[i])])

C2_Witness ==
    /\ apc = "done"
    /\ aresult.segment.summary.block_count = 2
    /\ aresult.segment.blocks[1].row_count = 2
    /\ aresult.segment.blocks[2].row_count = 1
    /\ aresult.segment.summary.compressed_byte_size
          # aresult.segment.summary.uncompressed_byte_size

\* C3: per column, the Summary statistics of a returned segment are the least
\* of the block mins, the greatest of the block maxes (a Null min or max, of a
\* block without a value, is no candidate) and the sums of the null counts and
\* of the row counts, all taken from the BlockMeta entries of the segment.
C3_SummaryColStats ==
    (apc = "done") =>
        LET seg == aresult.segment
            n == Len(seg.blocks)
        IN  \A id \in DOMAIN seg.summary.col_stats :
                LET s == seg.summary.col_stats[id]
                    mins == {seg.blocks[i].col_stats[id].min : i \in 1..n} \ {Null}
                    maxs == {seg.blocks[i].col_stats[id].max : i \in 1..n} \ {Null}
                IN  /\ \A i \in 1..n : id \in DOMAIN seg.blocks[i].col_stats
                    /\ IF mins = {} THEN s.min = Null
                       ELSE s.min \in mins /\ \A m \in mins : s.min <= m
                    /\ IF maxs = {} THEN s.max = Null
                       ELSE s.max \in maxs /\ \A m \in maxs : s.max >= m
                    /\ s.null_count =
                          SumSeq([i \in 1..n |-> seg.blocks[i].col_stats[id].null_count])
                    /\ s.row_count =
                          SumSeq([i \in 1..n |-> seg.blocks[i].col_stats[id].row_count])

\* two blocks with different ranges and a null
C3_Witness ==
    /\ apc = "done"
    /\ Len(aresult.segment.blocks) = 2
    /\ 0 \in DOMAIN aresult.segment.summary.col_stats
    /\ aresult.segment.summary.col_stats[0].min = 0
    /\ aresult.segment.summary.col_stats[0].max = 1
    /\ aresult.segment.blocks[1].col_stats[0].min = 1
    /\ aresult.segment.blocks[2].col_stats[0].max = 0
    /\ aresult.segment.summary.col_stats[0].null_count = 1

\* C4: without a filter (no push-down, or an empty filter list) a call that
\* returns a list returns the blocks of all segments of the snapshot, each once
\* and unchanged, and only a failed read makes it return an error.
C4_NoFilterKeepsAll ==
    (~push_down.some \/ push_down.filters = <<>>) =>
        /\ (ppc = "done" => presult.ok /\ presult.blocks = AllBlocksOfSnapshot)
        /\ (ppc = "err" => presult.err \in {"SnapshotReadError", "SegmentReadError"})

C4_Witness ==
    /\ ppc = "done"
    /\ push_down = Extras(<<>>)
    /\ Len(PrunedSnapshot) = 2
    /\ Len(presult.blocks) = 2
    /\ presult.blocks[1].col_stats[0].min = Null

\* C5: on a snapshot without segments apply starts no segment load, reads the
\* snapshot once at most, never enters the fan-out and returns the empty list.
C5_EmptySnapshot ==
    (ppc # "none" /\ PrunedSnapshot = <<>>) =>
        /\ segment_reads = <<>>
        /\ in_progress = {}
        /\ snapshot_reads <= 1
        /\ ppc # "fanout"
        /\ (ppc = "done" => presult = POk(<<>>))
        /\ (ppc = "err" => presult.err \in {"CompileError", "SnapshotReadError"})

C5_Witness ==
    /\ ppc = "done"
    /\ PrunedSnapshot = <<>>
    /\ snapshot_reads = 1
    /\ ~block_pred.always

\* C6: at no time are more than min(10, segment_count) segment loads running.
C6_BoundedLoads ==
    /\ Cardinality(in_progress) <= MaxBuffered
    /\ Cardinality(in_progress) <= Len(segment_locs)

C6_Witness ==
    /\ ppc = "fanout"
    /\ Len(segment_locs) > MaxBuffered
    /\ Cardinality(in_progress) = MaxBuffered
    /\ next_outgoing_index > 1

\* C7: a call in which a read or a predicate evaluation failed returns an
\* error and no block, whatever it had gathered: a call that returns a list
\* saw no failure, and the error returned is that of a failure that occurred.
C7_NoPartialResult ==
    /\ (ppc = "err" => ~presult.ok /\ presult.blocks = <<>> /\ presult.err # "none")
    /\ (ppc = "done" => presult.ok /\ faults = 0 /\ failures = <<>>)
    /\ ((ppc = "err" /\ presult.err \in {"SegmentReadError", "EvalError"}) =>
            \E i \in DOMAIN failures : failures[i] = presult.err)
    /\ ((ppc = "fanout" /\ failures # <<>>) => ~presult.ok)

\* the second segment failed after the blocks of the first were gathered
C7_Witness ==
    /\ ppc = "err"
    /\ presult.err = "SegmentReadError"
    /\ Flatten(collected) # <<>>

\* C8: an append call that hit a failure returns the error and no segment,
\* pulls and persists nothing more, and a call that is still running or has
\* returned a segment has had no failure.
C8_State ==
    /\ (apc = "err" => ~aresult.ok /\ aresult.segment = NoSegment /\ aresult.err # "none")
    /\ (apc \in {"running", "done"} =>
            /\ Len(persisted) = Len(pulled)
            /\ \A i \in 1..Len(pulled) : block_stats(pulled[i]).ok)
    /\ (apc = "done" => aresult.ok /\ column_stats_reduce(blocks_stats).ok)
C8_Step ==
    (apc = "err") =>
        /\ apc' \in {"err", "idle"}
        /\ nextLoc' = nextLoc
        /\ blockFiles' = blockFiles
        /\ Len(pulled') <= Len(pulled)
        /\ Len(persisted') <= Len(persisted)
        /\ segStore' = segStore
C8_FailureAborts == [][C8_State' /\ C8_Step]_vars

\* a later batch failed after an earlier one was persisted
C8_Witness ==
    /\ apc = "err"
    /\ aresult.err = "StorageError"
    /\ block_metas # <<>>

\* C9: the blocks apply returns are those of the snapshot the pruner was built
\* on, filtered; snapshots published since then change nothing in the result.
C9_SnapshotIsolation ==
    /\ (ppc \in {"fanout", "done"} => segment_locs = PrunedSnapshot)
    /\ (ppc = "done" =>
            presult.blocks =
                Flatten([i \in 1..Len(PrunedSnapshot) |->
                            filter_segment(PrunedSegment(i), block_pred).blocks]))

\* a snapshot with one more segment was published while the call ran
C9_Witness ==
    /\ ppc = "done"
    /\ published_during > 0
    /\ table_snapshot_location < Len(snapshots)
    /\ presult.blocks # <<>>
    /\ Len(segStore[Len(segStore)].blocks) > 0

\* C10: a filter that does not compile makes apply return the compilation
\* error with no snapshot read and no segment read issued.
C10_CompileErrorBeforeIO ==
    /\ ((ppc = "err" /\ presult.err = "CompileError") =>
            snapshot_reads = 0 /\ segment_reads = <<>>)
    /\ ((ppc \notin {"none", "new"} /\ push_down.some /\ push_down.filters # <<>>
            /\ ~Compilable(push_down.filters[1])) =>
            ppc = "err" /\ presult.err = "CompileError")

C10_Witness ==
    /\ ppc = "err"
    /\ presult.err = "CompileError"
    /\ Len(PrunedSnapshot) = 2

\* what apply returns when every snapshot and segment comes from storage
ResultFromStorage ==
    Flatten([i \in 1..Len(PrunedSnapshot) |->
                filter_segment(PrunedSegment(i), block_pred).blocks])

\* C11: cache transparency. With a metadata cache that other queries fill at
\* any time (empty, partly or fully populated when a read looks a location
\* up), the segment list apply works on is the one in storage and the blocks
\* it returns are those it returns when everything is read from storage.
C11_CacheTransparent ==
    /\ (ppc \in {"fanout", "done"} => segment_locs = PrunedSnapshot)
    /\ (ppc = "done" => presult.ok /\ presult.blocks = ResultFromStorage)
    /\ \A i \in DOMAIN queued_outputs :
           queued_outputs[i].ok =>
               queued_outputs[i] = filter_segment(PrunedSegment(i), block_pred)

\* one segment came from the cache, the other from storage, and the filter
\* pruned a block
C11_Witness ==
    /\ ppc = "done"
    /\ Len(PrunedSnapshot) = 2
    /\ DOMAIN cache_hits.segments = {2}
    /\ cache_hits.snapshot = <<>>
    /\ Len(presult.blocks) = 1
    /\ Len(AllBlocksOfSnapshot) = 2

\* the rearrangements of a sequence
Rearrangements(n) == {p \in [1..n -> 1..n] : \A i, j \in 1..n : i # j => p[i] # p[j]}
Permuted(seq, p) == [i \in 1..Len(seq) |-> seq[p[i]]]

\* C12: statistics reduction is order-independent. Reducing the per-block
\* statistics maps an append call has gathered gives the same outcome (the same
\* Summary min, max, null_count and row_count per column, or the same failure)
\* in every order of the blocks, and the Summary of a returned segment is that
\* reduction.
C12_ReduceOrderIndependent ==
    /\ \A p \in Rearrangements(Len(blocks_stats)) :
           column_stats_reduce(Permuted(blocks_stats, p)) = column_stats_reduce(blocks_stats)
    /\ (apc = "done" =>
           aresult.segment.summary.col_stats = column_stats_reduce(blocks_stats).stats)

\* two blocks with different statistics, the smaller min in the second
C12_Witness ==
    /\ apc = "done"
    /\ Len(blocks_stats) = 2
    /\ \A i \in 1..2 : DOMAIN blocks_stats[i] = {0}
    /\ blocks_stats[1][0].col_stats.min = 1
    /\ blocks_stats[2][0].col_stats.min = 0
    /\ blocks_stats[2][0].col_stats.null_count = 1
    /\ aresult.segment.summary.col_stats[0].min = 0

\* C13: every ColumnStatistics block_stats produced, for array and constant
\* columns and any row count, has null_count <= row_count and, for a column
\* with rows, min <= max; so has every ColumnStatistics of a returned Summary.
C13_WellFormed(s) ==
    /\ s.null_count <= s.row_count
    /\ (s.row_count > 0 => s.min <= s.max)
C13_StatsWellFormed ==
    /\ \A i \in 1..Len(blocks_stats) : \A id \in DOMAIN blocks_stats[i] :
           C13_WellFormed(blocks_stats[i][id].col_stats)
    /\ (apc = "done" =>
           \A id \in DOMAIN aresult.segment.summary.col_stats :
               C13_WellFormed(aresult.segment.summary.col_stats[id]))

\* C17: for a column backed by one repeated value block_stats reports
\* min = max = the value, and null_count = row_count when the value is null,
\* 0 otherwise.
C17_ConstantColumnStats ==
    \A i \in 1..Len(pulled) :
        LET block == pulled[i]
            res == block_stats(block)
        IN  res.ok =>
                \A idx \in DOMAIN res.stats :
                    LET col == block.columns[idx + 1]
                        st == res.stats[idx].col_stats
                    IN  col.kind = "Constant" =>
                            /\ st.min = col.vals[1]
                            /\ st.max = col.vals[1]
                            /\ st.null_count =
                                  IF col.vals[1] = Null THEN st.row_count ELSE 0

\* the compiled predicate is true on these statistics
PredTrue(stats) == Pred(block_pred, stats).ok /\ Pred(block_pred, stats).val

\* C14: on success apply returns exactly the blocks b of the segments s of the
\* snapshot with the predicate true on the Summary statistics of s and on the
\* statistics of b, each as stored and once.
C14_ExactResult ==
    (ppc = "done") =>
        /\ presult.ok
        /\ Range(presult.blocks) =
              {b \in Range(AllBlocksOfSnapshot) :
                  \E i \in 1..Len(PrunedSnapshot) :
                      /\ b \in Range(PrunedSegment(i).blocks)
                      /\ PredTrue(PrunedSegment(i).summary.col_stats)
                      /\ PredTrue(b.col_stats)}
        /\ \A k, l \in 1..Len(presult.blocks) :
              k # l => presult.blocks[k] # presult.blocks[l]

\* the example of the design: segment A with x in [0,10] and [20,30], segment B
\* with x in [40,50], filter x > 25: the [20,30] and the [40,50] block
C14_Witness ==
    /\ ppc = "done"
    /\ Len(PrunedSnapshot) = 2
    /\ Len(PrunedSegment(1).blocks) = 2
    /\ BlockData(PrunedSegment(1).blocks[1]) = [columns |-> <<ArrayColumn(<<0, 10>>)>>]
    /\ BlockData(PrunedSegment(1).blocks[2]) = [columns |-> <<ArrayColumn(<<20, 30>>)>>]
    /\ BlockData(PrunedSegment(2).blocks[1]) = [columns |-> <<ArrayColumn(<<40, 50>>)>>]
    /\ push_down = Extras(<<Cmp(">", 0, 25)>>)
    /\ presult.blocks = <<PrunedSegment(1).blocks[2], PrunedSegment(2).blocks[1]>>

\* C15: segment-level short-circuit. A segment on whose Summary statistics the
\* predicate is false is discarded whole: its load calls the predicate on the
\* Summary only, yields no block, and no block of it is in the result, also
\* when the statistics of one of its blocks satisfy the predicate.
C15_SegmentShortCircuit ==
    \A i \in DOMAIN pred_evals :
        LET segment_info == PrunedSegment(i)
            onSummary == Pred(block_pred, segment_info.summary.col_stats)
        IN  (onSummary.ok /\ ~onSummary.val) =>
                /\ pred_evals[i] = <<0>>
                /\ (i \in DOMAIN queued_outputs => queued_outputs[i] = POk(<<>>))
                /\ (ppc = "done" =>
                        \A k \in 1..Len(presult.blocks) :
                            presult.blocks[k] \notin Range(segment_info.blocks))

\* the first segment is discarded although the statistics of one of its blocks
\* satisfy the predicate; the second segment is kept
C15_Witness ==
    /\ ppc = "done"
    /\ Len(PrunedSnapshot) = 2
    /\ ~block_pred.always
    /\ ~PredTrue(PrunedSegment(1).summary.col_stats)
    /\ \E j \in 1..Len(PrunedSegment(1).blocks) :
           PredTrue(PrunedSegment(1).blocks[j].col_stats)
    /\ pred_evals[1] = <<0>>
    /\ presult.blocks = PrunedSegment(2).blocks
    /\ presult.blocks # <<>>

\* what holds of the reads of one apply call at any time: the snapshot is read
\* once at most, the segment reads are the first locations of the snapshot in
\* order, each once, and all of them when the call has succeeded
C16_State ==
    /\ snapshot_reads <= 1
    /\ Len(segment_reads) <= Len(segment_locs)
    /\ \A k \in 1..Len(segment_reads) : segment_reads[k] = segment_locs[k]
    /\ \A k, l \in 1..Len(segment_reads) : k # l => segment_reads[k] # segment_reads[l]
    /\ ((ppc = "done" /\ segment_locs # <<>>) =>
            snapshot_reads = 1 /\ segment_reads = segment_locs)

\* C16 as stated: single pass, no retries, and once a read has failed no
\* location is read again and no load that the buffer had not been given yet
\* is started.
C16_NoStartAfterFailure ==
    [][/\ C16_State'
       /\ (faults > 0 =>
              next_seg' = next_seg /\ snapshot_reads' = snapshot_reads)]_vars

\* C16 as amended: single pass, no retries; nothing is read or started once
\* the call has returned. After a failed read a load is started only while the
\* error has not been yielded, and a read is issued only while the error
\* waits behind the output of an earlier segment; with at most 10 segments
\* every load has been started before the first read is issued.
C16_SinglePass ==
    [][/\ C16_State'
       /\ (ppc \in {"done", "err"} =>
              /\ segment_reads' = segment_reads
              /\ snapshot_reads' = snapshot_reads
              /\ next_seg' = next_seg)
       /\ ((faults > 0 /\ next_seg' # next_seg) =>
              /\ ppc = "fanout"
              /\ \A j \in DOMAIN failures : next_outgoing_index <= j)
       /\ ((faults > 0 /\ segment_reads' # segment_reads) =>
              /\ ppc = "fanout"
              /\ \A j \in DOMAIN failures :
                    j \in DOMAIN queued_outputs /\ next_outgoing_index < j)
       /\ ((faults > 0 /\ Len(segment_locs) <= MaxBuffered) => next_seg' = next_seg)]_vars

\* a read has failed, its error is not the next output, and the load of a
\* further segment has been pushed and is about to be polled
C16_Witness ==
    /\ ppc = "fanout"
    /\ faults > 0
    /\ failures # <<>>
    /\ ~CanStart
    /\ next_outgoing_index \notin DOMAIN queued_outputs
    /\ Unpolled # {}

\* every batch pulled so far has been through statistics, location generation
\* and persistence, and the i-th BlockMeta describes the i-th batch
C18_State ==
    (apc \in {"running", "done"}) =>
        /\ Len(blocks_stats) = Len(pulled)
        /\ Len(persisted) = Len(pulled)
        /\ Len(block_metas) = Len(pulled)
        /\ \A i \in 1..Len(pulled) :
              /\ blocks_stats[i] = block_stats(pulled[i]).stats
              /\ persisted[i] = save_block(pulled[i])
              /\ BlockData(block_metas[i]) = pulled[i]
              /\ block_metas[i].row_count = num_rows(pulled[i])
              /\ block_metas[i].block_size = memory_size(pulled[i])
              /\ block_metas[i].col_stats = BlockColStats(block_stats(pulled[i]).stats)
        /\ \A i, j \in 1..Len(block_metas) :
              i < j => block_metas[i].location.location < block_metas[j].location.location
        /\ (apc = "done" => aresult.segment.blocks = block_metas)

\* C18: append_blocks takes the batches one at a time in arrival order. A
\* step pulls at most one batch and writes at most one block file; when the
\* next batch is pulled, statistics, location and persistence of all earlier
\* batches are complete; the i-th BlockMeta of the segment describes the i-th
\* batch.
C18_Sequential ==
    [][/\ C18_State'
       /\ Len(pulled') <= Len(pulled) + 1
       /\ Cardinality(DOMAIN blockFiles') <= Cardinality(DOMAIN blockFiles) + 1
       /\ (Len(pulled') = Len(pulled) + 1 =>
              /\ apc = "running"
              /\ Len(persisted) = Len(pulled)
              /\ \A i \in 1..Len(pulled) : pulled'[i] = pulled[i])]_vars

\* a segment of two different batches
C18_Witness ==
    /\ apc = "done"
    /\ Len(aresult.segment.blocks) = 2
    /\ num_rows(pulled[1]) = 2
    /\ num_rows(pulled[2]) = 1
    /\ pulled[1].columns[1].kind = "Array"
    /\ pulled[2].columns[1].kind = "Constant"

\* what apply returns for the filter list <<f>> when its reads succeed
ResultWithFilter(f) ==
    Flatten([i \in 1..Len(PrunedSnapshot) |->
                filter_segment(PrunedSegment(i), FilterPred(f)).blocks])

\* C19: of a filter list only the first expression is used. A call with the
\* filters f1, f2, ... that succeeds returns the blocks a call with f1 alone
\* returns, it fails to compile only when f1 does not compile, and a second
\* filter that does not compile or that no row satisfies changes nothing.
C19_OnlyFirstFilter ==
    (ppc \in {"done", "err"} /\ HasFilter(push_down)) =>
        LET f1 == push_down.filters[1]
        IN  /\ (ppc = "done" => presult.ok /\ presult.blocks = ResultWithFilter(f1))
            /\ (Compilable(f1) =>
                    presult.err \in {"none", "SnapshotReadError", "SegmentReadError"})
            /\ (~Compilable(f1) => presult = PErr("CompileError"))

\* two filters, the second does not compile, and the first kept a block and
\* pruned another
C19_Witness ==
    /\ ppc = "done"
    /\ push_down = Extras(<<Cmp(">", 0, 25), UnknownColumn>>)
    /\ Len(AllBlocksOfSnapshot) = 3
    /\ Len(presult.blocks) = 2

\* C20: in every segment append_blocks returns, the col_stats map of every
\* BlockMeta and the Summary col_stats have the same keys, the column positions
\* 0..k-1 of the batches; a call whose batches do not all have the same column
\* ids returns no segment but an error.
C20_SameKeySets ==
    /\ (apc = "done" =>
           LET seg == aresult.segment
           IN  /\ aresult.ok
               /\ \A i \in 1..Len(seg.blocks) :
                     /\ DOMAIN seg.blocks[i].col_stats = DOMAIN seg.summary.col_stats
                     /\ DOMAIN seg.blocks[i].col_stats = 0..(num_columns(pulled[i]) - 1)
               /\ \A i, j \in 1..Len(pulled) :
                     num_columns(pulled[i]) = num_columns(pulled[j]))
    /\ ((apc = "err" /\ aresult.err = "FormatError") =>
           /\ ~aresult.ok
           /\ aresult.segment = NoSegment
           /\ \E i, j \in 1..Len(pulled) : num_columns(pulled[i]) # num_columns(pulled[j]))

\* a batch of one column and a batch without columns in one call
C20_Witness ==
    /\ apc = "err"
    /\ aresult.err = "FormatError"
    /\ Len(pulled) = 2
    /\ num_columns(pulled[1]) = 1
    /\ num_columns(pulled[2]) = 0

\* the block locations the stored segments reference, and those of the
\* BlockMeta list a call holds
ReferencedLocations(store) ==
    UNION {{store[i].blocks[j].location.location : j \in DOMAIN store[i].blocks} :
              i \in DOMAIN store}
HeldLocations == {block_metas[j].location.location : j \in DOMAIN block_metas}

\* C21: an append call, whether it succeeds, fails or is cancelled, creates
\* block files at fresh locations and changes nothing else that is stored: no
\* existing block file changes or disappears, no segment and no snapshot
\* changes; a block file left by a failed or cancelled call is referenced by no
\* stored segment, then and later.
C21_State ==
    /\ (apc \in {"running", "err"} => HeldLocations \cap ReferencedLocations(segStore) = {})
    /\ ReferencedLocations(segStore) \subseteq DOMAIN blockFiles
    /\ \A k \in DOMAIN snapshots : Range(snapshots[k]) \subseteq DOMAIN segStore
C21_Step ==
    /\ \A loc \in DOMAIN blockFiles :
           loc \in DOMAIN blockFiles' /\ blockFiles'[loc] = blockFiles[loc]
    /\ \A loc \in DOMAIN blockFiles' \ DOMAIN blockFiles :
           \A old \in DOMAIN blockFiles : loc > old
    /\ (apc # "done" => segStore' = segStore /\ snapshots' = snapshots)
    /\ \A k \in DOMAIN snapshots : k \in DOMAIN snapshots' /\ snapshots'[k] = snapshots[k]
    /\ \A k \in DOMAIN segStore : k \in DOMAIN segStore' /\ segStore'[k] = segStore[k]
    /\ \A loc \in DOMAIN blockFiles :
           (loc \notin ReferencedLocations(segStore) /\ (apc = "done" => loc \notin HeldLocations))
               => loc \notin ReferencedLocations(segStore')
C21_AppendFrame == [][C21_State' /\ C21_Step]_vars

\* a failed or cancelled call left the block file at location 1; a later call
\* wrote the block at location 2 and its segment was published
C21_Witness ==
    /\ apc = "idle"
    /\ Len(segStore) = 1
    /\ ReferencedLocations(segStore) = {2}
    /\ DOMAIN blockFiles = {1, 2}
    /\ Len(snapshots) = 2

\* what block_on returns, and when: Ok(output of f) only after the task has
\* finished f and sent its output; with a timeout, Ok or the Timeout error;
\* a failed send is that of a task which finished after block_on had returned
C22_Returns ==
    /\ (bpc = "returned" /\ reply.ok) =>
          /\ task = "finished"
          /\ sent = "ok"
          /\ reply.value = f_output
    /\ (bpc = "returned" /\ timeout = "None" /\ ~reply.ok) => task = "panicked"
    /\ (bpc = "returned" /\ timeout = "Some") => (reply.ok \/ reply.err = "Timeout")
    /\ (bpc = "returned" /\ ~reply.ok) => channel = <<>>
    /\ sent = "err" => (task = "finished" /\ bpc = "returned" /\ ~reply.ok)
\* the result of block_on stands, and its wait times out only while the task
\* has delivered nothing
C22_Waits ==
    /\ bpc = "returned" => (bpc' = "returned" /\ reply' = reply)
    /\ (bpc = "recv" /\ bpc' = "timed_out") =>
          (timeout = "Some" /\ sent = "none" /\ channel = <<>>)
    /\ bpc = "timed_out" => (bpc' = "returned" => reply' = RErr("Timeout"))

\* C22 as stated: block_on(f, None) returns Ok(output of f) only after the
\* spawned task has finished; block_on(f, Some(timeout)) returns Ok(output of
\* f) or a Timeout error; the task is never cancelled, a task still running
\* after a timeout runs to its end, and its late output reaches nobody.
C22_State ==
    /\ task # "cancelled"
    /\ C22_Returns
C22_Step ==
    /\ C22_Waits
    /\ (bpc \in {"timed_out", "returned"} /\ task = "running") =>
          task' \in {"running", "finished", "panicked"}
C22_LateTask ==
    (bpc = "timed_out" /\ task = "running") ~> (task \in {"finished", "panicked"})
C22_BlockOn == [](C22_State) /\ [][C22_Step]_vars /\ C22_LateTask

\* C22 as amended: the same results of block_on; block_on itself never
\* cancels the task, which is detached: a task still running after a timeout
\* runs to its end unless the Runtime is dropped first, and only the shutdown
\* of the dropped Runtime cancels it.
C22_DetachedState ==
    /\ task = "cancelled" => runtime = "dropped"
    /\ C22_Returns
C22_DetachedStep ==
    /\ C22_Waits
    /\ (task = "running" /\ task' # "running") =>
          \/ task' \in {"finished", "panicked"}
          \/ task' = "cancelled" /\ runtime = "stopping" /\ runtime' = "dropped"
    /\ runtime # runtime' => bpc \in {"idle", "returned"}
C22_DetachedLateTask ==
    (bpc = "timed_out" /\ task = "running")
        ~> (task \in {"finished", "panicked"} \/ runtime = "dropped")
C22_Detached ==
    [](C22_DetachedState) /\ [][C22_DetachedStep]_vars /\ C22_DetachedLateTask
\* block_on returned the Timeout error while the task was running; the task
\* then finished f on the running runtime, and its send failed
C22_Witness ==
    /\ bpc = "returned"
    /\ timeout = "Some"
    /\ reply = RErr("Timeout")
    /\ task = "finished"
    /\ sent = "err"
    /\ runtime = "running"

\* C23: the block list apply returns is in snapshot order whatever the order
\* in which the segment loads completed: its blocks are distinct blocks of the
\* snapshot, and they stand in the order in which the snapshot lists their
\* segments and each segment lists its blocks.
PositionInSnapshot(block_meta) ==
    CHOOSE k \in 1..Len(AllBlocksOfSnapshot) : AllBlocksOfSnapshot[k] = block_meta
C23_SnapshotOrder ==
    (ppc = "done" /\ presult.ok) =>
        /\ \A k \in 1..Len(presult.blocks) :
              presult.blocks[k] \in Range(AllBlocksOfSnapshot)
        /\ \A k, l \in 1..Len(presult.blocks) :
              k < l => PositionInSnapshot(presult.blocks[k])
                          < PositionInSnapshot(presult.blocks[l])
\* the load of the second segment completed before that of the first, and the
\* result has two blocks of one segment and a block of the other
C23_Witness ==
    /\ ppc = "done"
    /\ presult.ok
    /\ overtaken
    /\ Len(PrunedSnapshot) = 2
    /\ Len(PrunedSegment(1).blocks) = 2
    /\ presult.blocks = PrunedSegment(1).blocks \o PrunedSegment(2).blocks

\* C24: an apply call whose reads all return does return, with a block list
\* or with an error; the fan-out is only started with a concurrency limit of
\* at least 1, an empty snapshot having returned before.
C24_LimitPositive == ppc = "fanout" => (segment_locs # <<>> /\ BufferedMax >= 1)
C24_Returns == (ppc \in {"read_snapshot", "fanout"}) ~> (ppc \in {"done", "err"})
C24_ApplyReturns == [](C24_LimitPositive) /\ C24_Returns
\* the fan-out of a snapshot of one segment has run with limit 1 and the call
\* has returned
C24_Witness ==
    /\ ppc = "done"
    /\ Len(segment_locs) = 1
    /\ BufferedMax = 1
    /\ Len(presult.blocks) = 1

\* C25: add_user creates the user only when the store has no record of the
\* name, and then returns Ok with the sequence number of the new record, which
\* holds the given user info; when a record exists it returns
\* UserAlreadyExists and the record, its sequence number included, stays as it
\* is. Of the add_user calls that have returned, at most one more has returned
\* Ok than drop_user calls have: concurrent add_user calls alone give one Ok.
OkCalls(op) == {c \in Callers : calls[c].op = op /\ calls[c].pc = "done" /\ calls[c].result.ok}
C25_AtMostOne == Cardinality(OkCalls("add_user")) <= Cardinality(OkCalls("drop_user")) + 1
C25_Step ==
    \A c \in Callers :
        (calls[c].pc = "idle" /\ calls'[c].op = "add_user") =>
            IF kv_record.present
            THEN /\ calls'[c].result = UErr("UserAlreadyExists")
                 /\ kv_record' = kv_record
            ELSE /\ calls'[c].result = UOk(Some(kv_record'.seq))
                 /\ kv_record'.present
                 /\ kv_record'.seq > kv_seq
                 /\ kv_record'.user = UserInfo(calls'[c].new_password[1],
                                               calls'[c].new_auth[1])
C25_AddUser == [](C25_AtMostOne) /\ [][C25_Step]_vars
\* two add_user calls with different user infos on an empty store: the first
\* returned Ok, the second UserAlreadyExists, and the record is the first's
C25_Witness ==
    /\ \A c \in {1, 2} : calls[c].op = "add_user" /\ calls[c].pc = "done"
    /\ calls[1].result = UOk(Some(1))
    /\ calls[2].result = UErr("UserAlreadyExists")
    /\ calls[1].new_password # calls[2].new_password
    /\ kv_record = SeqV(1, UserInfo(calls[1].new_password[1], calls[1].new_auth[1]))

\* C26: update_user and drop_user called with Some(seq) change the record
\* only when the user exists with that sequence number; when the user is
\* missing or has another sequence number they return UnknownUser and the
\* record stays as it is; update_user returns Ok(Some(s)) only when it has
\* replaced the record by the new user info, stored under s.
C26_Step ==
    \A c \in Callers :
        (/\ calls[c].pc # "done"
         /\ calls'[c].pc = "done"
         /\ calls'[c].op \in {"update_user", "drop_user"}
         /\ calls'[c].seq # None) =>
            LET call == calls'[c]
                matches == kv_record.present /\ kv_record.seq = call.seq[1]
            IN  /\ kv_record' # kv_record => matches
                /\ ~matches => (call.result = UErr("UnknownUser") /\ kv_record' = kv_record)
                /\ (call.op = "update_user" /\ call.result.ok /\ call.result.val # None) =>
                      /\ kv_record' # kv_record
                      /\ kv_record'.present
                      /\ kv_record'.seq = call.result.val[1]
                      /\ call.new_password # None =>
                            kv_record'.user.password = call.new_password[1]
                      /\ call.new_auth # None =>
                            kv_record'.user.auth_type = call.new_auth[1]
C26_SeqGuarded == [][C26_Step]_vars

\* C27: a partial update_user with seq = None that writes the record leaves
\* the field it was not asked to change as it was stored right before the
\* write, whatever other calls came between its read and its write.
C27_Step ==
    \A c \in Callers :
        (/\ calls[c].pc = "upsert"
         /\ calls'[c].pc = "done"
         /\ calls[c].seq = None
         /\ (calls[c].new_password = None) # (calls[c].new_auth = None)
         /\ kv_record' # kv_record) =>
            /\ calls[c].new_password = None =>
                  kv_record'.user.password = kv_record.user.password
            /\ calls[c].new_auth = None =>
                  kv_record'.user.auth_type = kv_record.user.auth_type
C27_NoLostUpdate == [][C27_Step]_vars

====
